---- MODULE Spec2Model ----
(***************************************************************************)
(* Model of fuse.py: a Flask service whose single route parses lat, lon    *)
(* and size, asks OpenStreetMap (overpass) and then Yelp for the same box  *)
(* and returns both raw payloads in one JSON envelope.                     *)
(*                                                                         *)
(* Numbers.  Query parameters are decimal literals with six decimals,      *)
(* written here as an integer count of micro-degrees.  float() turns them  *)
(* into the handler's numbers, which the model keeps in half-micro-degrees *)
(* so that the one division of the program, degree / 2, is exact as it is  *)
(* in binary floating point.  Only finite literals are drawn as inputs.    *)
(*                                                                         *)
(* get_yelp_result is declared without self/cls and called through the     *)
(* class; the model follows Python 3, where that is a plain function call. *)
(***************************************************************************)
EXTENDS Integers, Sequences, FiniteSets, TLC

\* ------------------------------------------------------------- bounds
NumRequests == 2
MaxCoord == 1
MaxSize == 2

\* ------------------------------------------- constants of the source
ExampleLatMicro == 37786660
ExampleLonMicro == -122396559
ExampleSizeMicro == 5000

Requests == 1..NumRequests

VARIABLES
  cred_file,    \* config_secret.json as found at process start
  proc,         \* position of the module-level code
  client,       \* the module-global CustomClient
  FuseResult,   \* the class attributes of FuseResult
  routes,       \* the url rules registered on app
  pc,           \* per request: idle, osm_wait, yelp_wait, done
  args,         \* per request: request.args
  frame,        \* per request: the locals of fused_json
  osm_query,    \* per request: the MapQuery handed to api.Get
  yelp_params,  \* per request: the url_params handed to _make_request
  osm_reply,    \* per request: what api.Get returned or raised
  yelp_reply,   \* per request: what _make_request returned or raised
  response,     \* per request: the HTTP response
  history       \* per request: the upstream events in order

vars == <<cred_file, proc, client, FuseResult, routes, pc, args, frame,
          osm_query, yelp_params, osm_reply, yelp_reply, response, history>>

startup_vars == <<cred_file, proc, client, FuseResult, routes>>
request_vars == <<pc, args, frame, osm_query, yelp_params, osm_reply,
                  yelp_reply, response, history>>

\* ------------------------------------------------- credential file
OAUTH_KEYS == {"consumer_key", "consumer_secret", "token", "token_secret"}

MissingFile == [exists |-> FALSE, json |-> FALSE, keys |-> {}]
UnparseableFile == [exists |-> TRUE, json |-> FALSE, keys |-> {}]
IncompleteFile == [exists |-> TRUE, json |-> TRUE,
                   keys |-> {"consumer_key", "consumer_secret"}]
GoodFile == [exists |-> TRUE, json |-> TRUE, keys |-> OAUTH_KEYS]

CredFiles == {MissingFile, UnparseableFile, IncompleteFile, GoodFile}

\* io.open raises on a missing file, json.load on text that is not JSON,
\* Oauth1Authenticator(**creds) on anything but its four keyword arguments.
CredsLoad(f) == f.exists /\ f.json /\ f.keys = OAUTH_KEYS

NoClient == [created |-> FALSE, auth |-> {}]
CustomClient(auth) == [created |-> TRUE, auth |-> auth]

\* ----------------------------------------------------- query strings
Missing == [present |-> FALSE, numeric |-> FALSE, micro |-> 0]
Junk == [present |-> TRUE, numeric |-> FALSE, micro |-> 0]
Num(n) == [present |-> TRUE, numeric |-> TRUE, micro |-> n]

NoArgs == [lat |-> Missing, lon |-> Missing, size |-> Missing]

\* float(x): TypeError on None, ValueError on text that is no number,
\* else the number (in half-micro-degrees).
PyFloat(s) ==
  IF ~s.present THEN [ok |-> FALSE, exc |-> "TypeError", value |-> 0]
  ELSE IF ~s.numeric THEN [ok |-> FALSE, exc |-> "ValueError", value |-> 0]
  ELSE [ok |-> TRUE, exc |-> "", value |-> s.micro * 2]

\* ------------------------------------------------------- FuseResult
NoClass == [defined |-> FALSE, search_center |-> <<0, 0>>, degree |-> 0]

FuseResultClass ==
  [defined |-> TRUE,
   search_center |-> <<PyFloat(Num(ExampleLatMicro)).value,
                       PyFloat(Num(ExampleLonMicro)).value>>,
   degree |-> PyFloat(Num(ExampleSizeMicro)).value \div 2]

\* Mutant: the orchestrator halves the size and the adapter halves it again.
fused_json_radius_twice(degree) == (degree \div 2) \div 2

\* radius = degree / 2
fused_json_radius(degree) == degree \div 2

\* Mutant: the adapters are handed the class attribute, not the argument.
fused_json_center_of_class(cls, search_center) == cls.search_center

\* the name search_center in fused_json is its parameter
fused_json_center(cls, search_center) == search_center

NoFrame == [search_center |-> <<0, 0>>, radius |-> 0, osm_result |-> ""]

NoQuery == [sent |-> FALSE, south |-> 0, west |-> 0, north |-> 0, east |-> 0]

\* Mutant: the corners are handed over north-east first.
get_osm_query_transposed(center, radius) ==
  [sent |-> TRUE,
   south |-> center[1] + radius, west |-> center[2] + radius,
   north |-> center[1] - radius, east |-> center[2] - radius]

\* overpass.MapQuery(south, west, north, east)
get_osm_query(center, radius) ==
  [sent |-> TRUE,
   south |-> center[1] - radius, west |-> center[2] - radius,
   north |-> center[1] + radius, east |-> center[2] + radius]

\* '{0},{1}|{2},{3}': two corners separated by '|', each "lat,lon"
_format_bounds(sw_latitude, sw_longitude, ne_latitude, ne_longitude) ==
  <<<<sw_latitude, sw_longitude>>, <<ne_latitude, ne_longitude>>>>

NoParams == [sent |-> FALSE, term |-> "", latittude |-> 0, longitude |-> 0,
             bounds |-> _format_bounds(0, 0, 0, 0)]

\* url_params as my_search_by_bounding_box hands them to _make_request
my_search_by_bounding_box(sw_latitude, sw_longitude, ne_latitude, ne_longitude, params) ==
  [params EXCEPT !.sent = TRUE,
                 !.bounds = _format_bounds(sw_latitude, sw_longitude,
                                           ne_latitude, ne_longitude)]

\* Mutant: the Yelp adapter spans the whole size on each side of the center.
get_yelp_params_full_size(center, search_radius_in_degree) ==
  my_search_by_bounding_box(center[1] - 2 * search_radius_in_degree,
                            center[2] - 2 * search_radius_in_degree,
                            center[1] + 2 * search_radius_in_degree,
                            center[2] + 2 * search_radius_in_degree,
                            [sent |-> FALSE, term |-> "food",
                             latittude |-> center[1],
                             longitude |-> center[2],
                             bounds |-> _format_bounds(0, 0, 0, 0)])

get_yelp_params(center, search_radius_in_degree) ==
  my_search_by_bounding_box(center[1] - search_radius_in_degree,
                            center[2] - search_radius_in_degree,
                            center[1] + search_radius_in_degree,
                            center[2] + search_radius_in_degree,
                            [sent |-> FALSE, term |-> "food",
                             latittude |-> center[1],
                             longitude |-> center[2],
                             bounds |-> _format_bounds(0, 0, 0, 0)])

\* ------------------------------------------------ upstream providers
OsmPayloads == {"osm_a", "osm_b"}
YelpPayloads == {"yelp_a", "yelp_b"}
Failures == {"network", "status", "malformed"}

NoReply == [returned |-> FALSE, ok |-> FALSE, value |-> ""]
Returns(payload) == [returned |-> TRUE, ok |-> TRUE, value |-> payload]
Raises(failure) == [returned |-> TRUE, ok |-> FALSE, value |-> failure]

OsmReplies == {Returns(p) : p \in OsmPayloads} \cup {Raises(f) : f \in Failures}
YelpReplies == {Returns(p) : p \in YelpPayloads} \cup {Raises(f) : f \in Failures}

\* ------------------------------------------------------- responses
NoResponse == [status |-> 0, body |-> <<>>]

\* Flask answers an exception that leaves the view with its generic page.
InternalServerError == [status |-> 500, body |-> <<>>]

\* Mutant: the two payloads are filed under each other's key.
json_dumps_swapped(yelp_result, osm_result) ==
  <<<<"yelp", osm_result>>, <<"osm", yelp_result>>>>

\* json.dumps({'yelp': yelp_result, 'osm': osm_result}): the members of the object
json_dumps(yelp_result, osm_result) ==
  <<<<"yelp", yelp_result>>, <<"osm", osm_result>>>>

Ok(body) == [status |-> 200, body |-> body]

\* ------------------------------------------------------------- Init
Init ==
  /\ cred_file \in CredFiles
  /\ proc = "import"
  /\ client = NoClient
  /\ FuseResult = NoClass
  /\ routes = {}
  /\ pc = [r \in Requests |-> "idle"]
  /\ args = [r \in Requests |-> NoArgs]
  /\ frame = [r \in Requests |-> NoFrame]
  /\ osm_query = [r \in Requests |-> NoQuery]
  /\ yelp_params = [r \in Requests |-> NoParams]
  /\ osm_reply = [r \in Requests |-> NoReply]
  /\ yelp_reply = [r \in Requests |-> NoReply]
  /\ response = [r \in Requests |-> NoResponse]
  /\ history = [r \in Requests |-> <<>>]

\* --------------------------------------------------- module-level code
\* Mutant: a failed load is swallowed and the module goes on without a client.
LoadCredentialsLenient ==
  /\ proc = "import"
  /\ proc' = "creds"
  /\ client' = IF CredsLoad(cred_file) THEN CustomClient(cred_file.keys)
               ELSE NoClient
  /\ UNCHANGED <<cred_file, FuseResult, routes>>
  /\ UNCHANGED request_vars

LoadCredentials ==
  /\ proc = "import"
  /\ IF CredsLoad(cred_file)
       THEN /\ client' = CustomClient(cred_file.keys)
            /\ proc' = "creds"
       ELSE /\ client' = client
            /\ proc' = "crashed"
  /\ UNCHANGED <<cred_file, FuseResult, routes>>
  /\ UNCHANGED request_vars

DefineFuseResult ==
  /\ proc = "creds"
  /\ FuseResult' = FuseResultClass
  /\ proc' = "class"
  /\ UNCHANGED <<cred_file, client, routes>>
  /\ UNCHANGED request_vars

CreateApp ==
  /\ proc = "class"
  /\ routes' = routes \cup {"/"}
  /\ proc' = "app"
  /\ UNCHANGED <<cred_file, client, FuseResult>>
  /\ UNCHANGED request_vars

AppRun ==
  /\ proc = "app"
  /\ proc' = "serving"
  /\ UNCHANGED <<cred_file, client, FuseResult, routes>>
  /\ UNCHANGED request_vars

\* ------------------------------------------------------ the handler
\* hello_world up to the first blocking call: the three float() conversions,
\* then fused_json's radius and get_osm_result's api.Get(map_query).
HelloWorld(r, a) ==
  /\ proc = "serving"
  /\ "/" \in routes
  /\ pc[r] = "idle"
  /\ args' = [args EXCEPT ![r] = a]
  /\ LET lat == PyFloat(a.lat)
         lon == PyFloat(a.lon)
         degree == PyFloat(a.size)
     IN IF lat.ok /\ lon.ok /\ degree.ok
          THEN LET search_center == <<lat.value, lon.value>>
                   radius == fused_json_radius(degree.value)
               IN /\ frame' = [frame EXCEPT ![r] =
                                 [@ EXCEPT !.search_center = search_center,
                                           !.radius = radius]]
                  /\ osm_query' = [osm_query EXCEPT ![r] =
                       get_osm_query(fused_json_center(FuseResult, search_center),
                                     radius)]
                  /\ history' = [history EXCEPT ![r] = Append(@, "osm_call")]
                  /\ pc' = [pc EXCEPT ![r] = "osm_wait"]
                  /\ UNCHANGED response
          ELSE /\ response' = [response EXCEPT ![r] = InternalServerError]
               /\ history' = [history EXCEPT ![r] = Append(@, "response")]
               /\ pc' = [pc EXCEPT ![r] = "done"]
               /\ UNCHANGED <<frame, osm_query>>
  /\ UNCHANGED <<yelp_params, osm_reply, yelp_reply>>
  /\ UNCHANGED startup_vars

\* Mutant: a failed map-feature call is caught and the business search is
\* issued all the same.
OsmGetReturnsAndGoesOn(r, reply) ==
  /\ pc[r] = "osm_wait"
  /\ osm_reply' = [osm_reply EXCEPT ![r] = reply]
  /\ yelp_params' = [yelp_params EXCEPT ![r] =
         get_yelp_params(fused_json_center(FuseResult, frame[r].search_center),
                         frame[r].radius)]
  /\ history' = [history EXCEPT ![r] =
         @ \o <<IF reply.ok THEN "osm_ok" ELSE "osm_err", "yelp_call">>]
  /\ pc' = [pc EXCEPT ![r] = "yelp_wait"]
  /\ frame' = [frame EXCEPT ![r].osm_result = reply.value]
  /\ UNCHANGED <<args, osm_query, yelp_reply, response>>
  /\ UNCHANGED startup_vars

\* api.Get returns or raises; on a return fused_json goes on to
\* get_yelp_result's client.my_search_by_bounding_box(...).
OsmGetReturns(r, reply) ==
  /\ pc[r] = "osm_wait"
  /\ osm_reply' = [osm_reply EXCEPT ![r] = reply]
  /\ IF reply.ok
       THEN /\ yelp_params' = [yelp_params EXCEPT ![r] =
                 get_yelp_params(
                   fused_json_center(FuseResult, frame[r].search_center),
                   frame[r].radius)]
            /\ history' = [history EXCEPT ![r] = @ \o <<"osm_ok", "yelp_call">>]
            /\ frame' = [frame EXCEPT ![r].osm_result = reply.value]
            /\ pc' = [pc EXCEPT ![r] = "yelp_wait"]
            /\ UNCHANGED response
       ELSE /\ response' = [response EXCEPT ![r] = InternalServerError]
            /\ history' = [history EXCEPT ![r] = @ \o <<"osm_err", "response">>]
            /\ pc' = [pc EXCEPT ![r] = "done"]
            /\ UNCHANGED <<yelp_params, frame>>
  /\ UNCHANGED <<args, osm_query, yelp_reply>>
  /\ UNCHANGED startup_vars

\* _make_request returns or raises; on a return fused_json serialises the
\* envelope and hello_world returns it.
YelpRequestReturns(r, reply) ==
  /\ pc[r] = "yelp_wait"
  /\ yelp_reply' = [yelp_reply EXCEPT ![r] = reply]
  /\ IF reply.ok
       THEN /\ response' = [response EXCEPT ![r] =
                 Ok(json_dumps(reply.value, frame[r].osm_result))]
            /\ history' = [history EXCEPT ![r] = @ \o <<"yelp_ok", "response">>]
       ELSE /\ response' = [response EXCEPT ![r] = InternalServerError]
            /\ history' = [history EXCEPT ![r] = @ \o <<"yelp_err", "response">>]
  /\ pc' = [pc EXCEPT ![r] = "done"]
  /\ UNCHANGED <<args, frame, osm_query, yelp_params, osm_reply>>
  /\ UNCHANGED startup_vars

\* ------------------------------------------------------------ inputs
\* The requests of the service specification: the documented example, a
\* degenerate box, a negative size, and the malformed query strings.
QueryArgs ==
  { [lat |-> Num(ExampleLatMicro), lon |-> Num(ExampleLonMicro),
     size |-> Num(ExampleSizeMicro)],
    [lat |-> Num(1), lon |-> Num(-1), size |-> Num(0)],
    [lat |-> Num(0), lon |-> Num(1), size |-> Num(-1)],
    [lat |-> Missing, lon |-> Num(1), size |-> Num(1)],
    [lat |-> Num(1), lon |-> Num(1), size |-> Junk] }

Next ==
  \/ LoadCredentials
  \/ DefineFuseResult
  \/ CreateApp
  \/ AppRun
  \/ \E r \in Requests, a \in QueryArgs : HelloWorld(r, a)
  \/ \E r \in Requests, reply \in OsmReplies : OsmGetReturns(r, reply)
  \/ \E r \in Requests, reply \in YelpReplies : YelpRequestReturns(r, reply)

Spec == Init /\ [][Next]_vars

\* The box specification: one request of a started service, its three
\* parameters drawn independently.
Coords == {Num(n) : n \in -MaxCoord..MaxCoord}
Sizes == {Num(n) : n \in -1..MaxSize}

BoxArgs ==
  [lat : Coords \cup {Num(ExampleLatMicro), Missing},
   lon : Coords \cup {Num(ExampleLonMicro), Junk},
   size : Sizes \cup {Num(ExampleSizeMicro), Missing, Junk}]

InitBox ==
  /\ cred_file = GoodFile
  /\ proc = "serving"
  /\ client = CustomClient(GoodFile.keys)
  /\ FuseResult = FuseResultClass
  /\ routes = {"/"}
  /\ pc = [r \in Requests |-> "idle"]
  /\ args = [r \in Requests |-> NoArgs]
  /\ frame = [r \in Requests |-> NoFrame]
  /\ osm_query = [r \in Requests |-> NoQuery]
  /\ yelp_params = [r \in Requests |-> NoParams]
  /\ osm_reply = [r \in Requests |-> NoReply]
  /\ yelp_reply = [r \in Requests |-> NoReply]
  /\ response = [r \in Requests |-> NoResponse]
  /\ history = [r \in Requests |-> <<>>]

NextBox ==
  \/ \E a \in BoxArgs : HelloWorld(1, a)
  \/ \E reply \in OsmReplies : OsmGetReturns(1, reply)
  \/ \E reply \in YelpReplies : YelpRequestReturns(1, reply)

SpecBox == InitBox /\ [][NextBox]_vars

\* ------------------------------------------------------------ claims
Done(r) == pc[r] = "done"
NumericArgs(a) == \A p \in {a.lat, a.lon, a.size} : p.present /\ p.numeric
OsmFailed(r) == osm_reply[r].returned /\ ~osm_reply[r].ok
YelpFailed(r) == yelp_reply[r].returned /\ ~yelp_reply[r].ok
Count(h, e) == Cardinality({i \in 1..Len(h) : h[i] = e})
Before(h, e1, e2) ==
  \A j \in 1..Len(h) : h[j] = e2 => \E i \in 1..(j - 1) : h[i] = e1

\* The corners of center -/+ size/2, in half-micro-degrees, from the
\* micro-degree literals of the query string: 2*(lat - size/2) = 2*lat - size.
SouthOf(a) == 2 * a.lat.micro - a.size.micro
WestOf(a) == 2 * a.lon.micro - a.size.micro
NorthOf(a) == 2 * a.lat.micro + a.size.micro
EastOf(a) == 2 * a.lon.micro + a.size.micro

\* C1: in every request the bounds handed to the Yelp client and the
\* MapQuery handed to overpass name the same south-west and north-east
\* corners, value for value.
C1_SameBox ==
  \A r \in Requests :
    yelp_params[r].sent =>
      /\ osm_query[r].sent
      /\ yelp_params[r].bounds[1][1] = osm_query[r].south
      /\ yelp_params[r].bounds[1][2] = osm_query[r].west
      /\ yelp_params[r].bounds[2][1] = osm_query[r].north
      /\ yelp_params[r].bounds[2][2] = osm_query[r].east

C1_Witness ==
  \E r \in Requests :
    /\ yelp_params[r].sent
    /\ osm_query[r].sent
    /\ osm_query[r].south < osm_query[r].north

\* C2: the box sent upstream is (lat - size/2, lon - size/2) to
\* (lat + size/2, lon + size/2), the half taken once; size 0 gives both
\* corners equal to the center; 37.786660, -122.396559, 0.005 gives
\* (37.784160, -122.399059) to (37.789160, -122.394059).
C2_HalfSizeOnce ==
  \A r \in Requests :
    /\ osm_query[r].sent =>
         /\ osm_query[r].south = SouthOf(args[r])
         /\ osm_query[r].west = WestOf(args[r])
         /\ osm_query[r].north = NorthOf(args[r])
         /\ osm_query[r].east = EastOf(args[r])
    /\ yelp_params[r].sent =>
         yelp_params[r].bounds =
           <<<<SouthOf(args[r]), WestOf(args[r])>>,
             <<NorthOf(args[r]), EastOf(args[r])>>>>
    /\ (osm_query[r].sent /\ args[r].size = Num(0)) =>
         /\ osm_query[r].south = 2 * args[r].lat.micro
         /\ osm_query[r].north = 2 * args[r].lat.micro
         /\ osm_query[r].west = 2 * args[r].lon.micro
         /\ osm_query[r].east = 2 * args[r].lon.micro
    /\ (osm_query[r].sent
          /\ args[r] = [lat |-> Num(37786660), lon |-> Num(-122396559),
                        size |-> Num(5000)]) =>
         osm_query[r] = [sent |-> TRUE,
                         south |-> 2 * 37784160, west |-> 2 * (-122399059),
                         north |-> 2 * 37789160, east |-> 2 * (-122394059)]

C2_Witness ==
  \E r \in Requests :
    /\ yelp_params[r].sent
    /\ osm_query[r].sent
    /\ args[r] = [lat |-> Num(37786660), lon |-> Num(-122396559),
                  size |-> Num(5000)]

\* C3: for a size >= 0 the box given to each adapter has its south-west
\* corner below or at its north-east corner, in latitude and in longitude.
C3_CornersOrdered ==
  \A r \in Requests :
    (NumericArgs(args[r]) /\ args[r].size.micro >= 0) =>
      /\ osm_query[r].sent =>
           /\ osm_query[r].south <= osm_query[r].north
           /\ osm_query[r].west <= osm_query[r].east
      /\ yelp_params[r].sent =>
           /\ yelp_params[r].bounds[1][1] <= yelp_params[r].bounds[2][1]
           /\ yelp_params[r].bounds[1][2] <= yelp_params[r].bounds[2][2]

C3_Witness ==
  \E r \in Requests :
    /\ args[r].size.numeric
    /\ args[r].size.micro > 0
    /\ osm_query[r].sent
    /\ yelp_params[r].sent

\* C4: a request with lat, lon or size missing or non-numeric is answered
\* 400 and makes no upstream call.
C4_BadRequestIs400 ==
  \A r \in Requests :
    (Done(r) /\ ~NumericArgs(args[r])) =>
      /\ response[r].status = 400
      /\ ~osm_query[r].sent
      /\ ~yelp_params[r].sent

\* C5: with valid parameters and both upstream calls successful the
\* response is 200 and its JSON object has exactly the members "yelp" and
\* "osm", holding what Yelp and what overpass returned, unchanged.
C5_Envelope ==
  \A r \in Requests :
    (Done(r) /\ NumericArgs(args[r])
       /\ osm_reply[r].returned /\ osm_reply[r].ok
       /\ yelp_reply[r].returned /\ yelp_reply[r].ok) =>
      /\ response[r].status = 200
      /\ Len(response[r].body) = 2
      /\ {response[r].body[i][1] : i \in 1..2} = {"yelp", "osm"}
      /\ \A i \in 1..2 :
           /\ response[r].body[i][1] = "yelp" =>
                response[r].body[i][2] = yelp_reply[r].value
           /\ response[r].body[i][1] = "osm" =>
                response[r].body[i][2] = osm_reply[r].value

C5_Witness ==
  \E r \in Requests :
    /\ Done(r)
    /\ osm_reply[r].ok
    /\ yelp_reply[r].ok
    /\ response[r].status = 200

\* C6: when one adapter fails, one policy covers every such request:
\* either all of them fail as a whole with 502 or 504, or all of them are
\* answered 200 with the surviving payload and a marker for the failed one.
C6_OnePolicy ==
  \/ \A r \in Requests :
       (Done(r) /\ (OsmFailed(r) \/ YelpFailed(r))) =>
         response[r].status \in {502, 504}
  \/ \A r \in Requests :
       (Done(r) /\ (OsmFailed(r) \/ YelpFailed(r))) =>
         /\ response[r].status = 200
         /\ Len(response[r].body) = 2

\* C7: a failed upstream call never ends in a success response, and the
\* error that comes back tells a Yelp failure from an OSM failure.
C7_TaggedErrors ==
  /\ \A r \in Requests :
       (Done(r) /\ (OsmFailed(r) \/ YelpFailed(r))) => response[r].status # 200
  /\ \A r1, r2 \in Requests :
       (Done(r1) /\ Done(r2) /\ OsmFailed(r1) /\ YelpFailed(r2)) =>
         response[r1] # response[r2]

\* C8: with the credential file missing or malformed the client is never
\* created, the route never registered and no request handled; every request
\* that is handled finds the client built from the file's credentials.
C8_Startup ==
  /\ cred_file \in {MissingFile, UnparseableFile, IncompleteFile} =>
       /\ ~client.created
       /\ routes = {}
       /\ proc \in {"import", "crashed"}
       /\ \A r \in Requests : pc[r] = "idle" /\ response[r] = NoResponse
  /\ \A r \in Requests :
       pc[r] # "idle" =>
         /\ client.created
         /\ client.auth = cred_file.keys
         /\ client.auth = OAUTH_KEYS
         /\ "/" \in routes

C8_Witness ==
  /\ cred_file = UnparseableFile
  /\ proc = "crashed"

\* C9: per request the OSM call comes first, the Yelp call only after the
\* OSM call returned successfully, the response after every issued call has
\* returned; after a failed OSM call no Yelp call is issued; no call is
\* issued twice.
C9_Sequential ==
  \A r \in Requests :
    LET h == history[r] IN
      /\ Count(h, "osm_call") <= 1
      /\ Count(h, "yelp_call") <= 1
      /\ Before(h, "osm_call", "osm_ok")
      /\ Before(h, "osm_call", "osm_err")
      /\ Before(h, "osm_ok", "yelp_call")
      /\ Before(h, "yelp_call", "yelp_ok")
      /\ Before(h, "yelp_call", "yelp_err")
      /\ Count(h, "osm_err") > 0 => Count(h, "yelp_call") = 0
      /\ Count(h, "response") > 0 =>
           /\ h[Len(h)] = "response"
           /\ Count(h, "osm_call") = Count(h, "osm_ok") + Count(h, "osm_err")
           /\ Count(h, "yelp_call") = Count(h, "yelp_ok") + Count(h, "yelp_err")
      /\ response[r].status = 200 =>
           /\ Before(h, "osm_ok", "response")
           /\ Before(h, "yelp_ok", "response")

C9_Witness ==
  \E r \in Requests :
    history[r] = <<"osm_call", "osm_ok", "yelp_call", "yelp_ok", "response">>

\* C10: under every interleaving of requests the client and the class
\* attributes, once set, are never written again, and each request's box and
\* response come from its own parameters and its own upstream replies.
OwnBox(r) ==
  /\ osm_query[r].sent =>
       osm_query[r] = [sent |-> TRUE,
                       south |-> SouthOf(args[r]), west |-> WestOf(args[r]),
                       north |-> NorthOf(args[r]), east |-> EastOf(args[r])]
  /\ yelp_params[r].sent =>
       /\ yelp_params[r].latittude = 2 * args[r].lat.micro
       /\ yelp_params[r].longitude = 2 * args[r].lon.micro
       /\ yelp_params[r].bounds[1] = <<SouthOf(args[r]), WestOf(args[r])>>
       /\ yelp_params[r].bounds[2] = <<NorthOf(args[r]), EastOf(args[r])>>

OwnResponse(r) ==
  response[r].status = 200 =>
    response[r].body =
      <<<<"yelp", yelp_reply[r].value>>, <<"osm", osm_reply[r].value>>>>

C10_Isolation ==
  /\ [][/\ client.created => client' = client
        /\ FuseResult.defined => FuseResult' = FuseResult]_vars
  /\ [](\A r \in Requests : OwnBox(r) /\ OwnResponse(r))

C10_Witness ==
  \E r1, r2 \in Requests :
    /\ r1 # r2
    /\ pc[r1] = "yelp_wait"
    /\ Done(r2)
    /\ response[r2].status = 200
    /\ args[r1] # args[r2]
    /\ osm_reply[r1].value # osm_reply[r2].value

====
